---------------------------- MODULE Spec2Model ----------------------------
(***************************************************************************)
(* stats-rs: streaming descriptive statistics over the lines of stdin.     *)
(*                                                                         *)
(* The model follows src/src/main.rs: the aggregate Stats<T> (default,     *)
(* update, to_json, stub, Display::fmt) and one run of compute_stats, from *)
(* the creation of the aggregate to the final println!, the bail! of a     *)
(* parse error, or the panic of `lineno % polling` with polling = 0.       *)
(*                                                                         *)
(* Numbers.  The float type T is modelled by exact fractions <<num, den>>  *)
(* in lowest terms with den > 0; +infinity is <<1, 0>> and -infinity is    *)
(* <<-1, 0>>.  Rounding is not modelled.  Input lines are raw texts; only  *)
(* finite literals occur (spec section 3: an observation is finite).       *)
(*                                                                         *)
(* The estimators Mean, Variance and Quantile belong to the crate          *)
(* watermill, whose source is not part of src/.  Mean and Variance are     *)
(* modelled as Welford's recurrences (spec section 4.1); the divisor of    *)
(* Variance::get is n - ddof, and the ddof that Variance::default() fixes  *)
(* is left open (DdofChoices).  A Quantile is kept as the observations it  *)
(* has been fed, and its estimate as an uninterpreted value of them.       *)
(*                                                                         *)
(* I/O errors of stdin, stdout and stderr (the `?` of lines 159, 168,      *)
(* 178-180, 188-189) are failures of the environment and are not modelled. *)
(***************************************************************************)
EXTENDS Integers, Sequences, FiniteSets, TLC

VARIABLES
    json,         \* Cli::json
    running,      \* !Cli::hide_running
    polling,      \* Cli::polling
    skip_header,  \* Cli::skip_header
    input,        \* the lines stdin holds, as raw texts
    pos,          \* 1-based index of the next line the `lines` iterator yields
    lineno,       \* the counter of lines.enumerate()
    stats,        \* the aggregate
    stderr,       \* what has been written to the diagnostic channel
    stdout,       \* what has been written to the primary output
    err,          \* the error compute_stats returned, if any
    pc,           \* position in compute_stats
    fed           \* history: the values passed to Stats::update, in order

vars == <<json, running, polling, skip_header, input, pos, lineno, stats,
          stderr, stdout, err, pc, fed>>

\* ------------------------------------------------------------- bounds
MaxLines == 4
MaxPolling == 3

\* The raw texts an input line is drawn from.
RawLines == {"1", "-3", "0.5", "value"}

\* The ddof Variance::default() may fix (0: population, 1: sample).
DdofChoices == {0, 1}

\* ------------------------------------------------------------ numbers
Abs(x) == IF x < 0 THEN -x ELSE x

RECURSIVE GCD(_, _)
GCD(a, b) == IF b = 0 THEN a ELSE GCD(b, a % b)

\* The fraction n/d (d > 0) in lowest terms.
Rat(n, d) == LET g == GCD(Abs(n), d) IN <<n \div g, d \div g>>

Zero == <<0, 1>>
Infinity == <<1, 0>>
NegInfinity == <<-1, 0>>

RAdd(a, b) == Rat(a[1] * b[2] + b[1] * a[2], a[2] * b[2])
RSub(a, b) == Rat(a[1] * b[2] - b[1] * a[2], a[2] * b[2])
RMul(a, b) == Rat(a[1] * b[1], a[2] * b[2])
RDivN(a, k) == Rat(a[1], a[2] * k)
RLess(a, b) == a[1] * b[2] < b[1] * a[2]

\* Mutant: the new value overwrites the minimum.
FloatMin_Last(a, b) == b

\* Float::min / Float::max of two non-NaN values.
FloatMin(a, b) == IF RLess(b, a) THEN b ELSE a
FloatMax(a, b) == IF RLess(a, b) THEN b ELSE a

\* line.parse::<T>(): Ok(v) for a numeric literal, Err otherwise.
ParseFloat(line) ==
    CASE line = "1" -> [ok |-> TRUE, v |-> <<1, 1>>]
      [] line = "-3" -> [ok |-> TRUE, v |-> <<-3, 1>>]
      [] line = "0.5" -> [ok |-> TRUE, v |-> <<1, 2>>]
      [] OTHER -> [ok |-> FALSE, v |-> Zero]

\* ----------------------------------------------- watermill estimators
MeanNew == [n |-> 0, mean |-> Zero]

MeanUpdate(m, x) ==
    [n |-> m.n + 1, mean |-> RAdd(m.mean, RDivN(RSub(x, m.mean), m.n + 1))]

MeanGet(m) == m.mean

VarianceDefault(d) == [mean |-> MeanNew, ddof |-> d, state |-> Zero]

VarianceUpdate(v, x) ==
    LET mean_old == MeanGet(v.mean)
        mean == MeanUpdate(v.mean, x)
        mean_new == MeanGet(mean)
    IN [mean |-> mean, ddof |-> v.ddof,
        state |-> RAdd(v.state, RMul(RSub(x, mean_old), RSub(x, mean_new)))]

VarianceGet(v) ==
    IF v.mean.n > v.ddof THEN RDivN(v.state, v.mean.n - v.ddof) ELSE Zero

QuantileNew(q) == [q |-> q, seen |-> <<>>]

QuantileUpdate(e, x) == [e EXCEPT !.seen = Append(@, x)]

\* The estimate: a value the crate computes from q and the observations.
QuantileGet(e) == <<e.q, e.seen>>

\* ---------------------------------------------------------- Stats<T>
StatsDefault(d) ==
    [mean |-> MeanNew,
     median |-> QuantileNew("0.5"),
     q1 |-> QuantileNew("0.25"),
     q3 |-> QuantileNew("0.75"),
     variance |-> VarianceDefault(d),
     count |-> 0,
     min |-> Infinity,
     max |-> NegInfinity,
     initialized |-> FALSE]

\* Mutant: update forgets to advance count.
StatsUpdate_NoCount(s, val) ==
    [mean |-> MeanUpdate(s.mean, val),
     median |-> QuantileUpdate(s.median, val),
     q1 |-> QuantileUpdate(s.q1, val),
     q3 |-> QuantileUpdate(s.q3, val),
     variance |-> VarianceUpdate(s.variance, val),
     count |-> s.count,
     min |-> IF RLess(val, s.min) THEN val ELSE s.min,
     max |-> IF RLess(s.max, val) THEN val ELSE s.max,
     initialized |-> TRUE]

\* Mutant: update forgets to set initialized.
StatsUpdate_NoInit(s, val) ==
    [mean |-> MeanUpdate(s.mean, val),
     median |-> QuantileUpdate(s.median, val),
     q1 |-> QuantileUpdate(s.q1, val),
     q3 |-> QuantileUpdate(s.q3, val),
     variance |-> VarianceUpdate(s.variance, val),
     count |-> s.count + 1,
     min |-> IF RLess(val, s.min) THEN val ELSE s.min,
     max |-> IF RLess(s.max, val) THEN val ELSE s.max,
     initialized |-> s.initialized]

StatsUpdate(s, val) ==
    [mean |-> MeanUpdate(s.mean, val),
     median |-> QuantileUpdate(s.median, val),
     q1 |-> QuantileUpdate(s.q1, val),
     q3 |-> QuantileUpdate(s.q3, val),
     variance |-> VarianceUpdate(s.variance, val),
     count |-> s.count + 1,
     min |-> FloatMin(s.min, val),
     max |-> FloatMax(s.max, val),
     initialized |-> TRUE]

\* A rendered value: the marker NA, a number, the text of an infinity, or
\* JSON's null.
NA == [kind |-> "NA", val |-> <<>>]
Num(x) == [kind |-> "num", val |-> x]

\* format!("{}", x) of a float: "inf" and "-inf" for the infinities.
FmtFloat(x) ==
    IF x = Infinity THEN [kind |-> "inf", val |-> <<>>]
    ELSE IF x = NegInfinity THEN [kind |-> "-inf", val |-> <<>>]
    ELSE Num(x)

\* serde_json of a float: a non-finite value serialises as null.
JsonFloat(x) ==
    IF x \in {Infinity, NegInfinity} THEN [kind |-> "null", val |-> <<>>]
    ELSE Num(x)

ToJson(s) ==
    [mean |-> JsonFloat(MeanGet(s.mean)),
     variance |-> JsonFloat(VarianceGet(s.variance)),
     median |-> Num(QuantileGet(s.median)),
     q1 |-> Num(QuantileGet(s.q1)),
     q3 |-> Num(QuantileGet(s.q3)),
     count |-> s.count,
     min |-> JsonFloat(s.min),
     max |-> JsonFloat(s.max)]

Stub(s) ==
    [mean |-> NA,
     variance |-> NA,
     median |-> NA,
     q1 |-> NA,
     q3 |-> NA,
     count |-> s.count,
     min |-> FmtFloat(s.min),
     max |-> FmtFloat(s.max)]

Fmt(s) ==
    IF s.initialized
    THEN [mean |-> FmtFloat(MeanGet(s.mean)),
          variance |-> FmtFloat(VarianceGet(s.variance)),
          median |-> Num(QuantileGet(s.median)),
          q1 |-> Num(QuantileGet(s.q1)),
          q3 |-> Num(QuantileGet(s.q3)),
          count |-> s.count,
          min |-> FmtFloat(s.min),
          max |-> FmtFloat(s.max)]
    ELSE Stub(s)

\* ------------------------------------------------------ compute_stats
running_print_height == 9

\* What one writeln!/println! puts on a channel; `init` records whether the
\* aggregate rendered was initialized.
Written(fmt, body, s) ==
    [op |-> "write", fmt |-> fmt, body |-> body, init |-> s.initialized]

\* stderr.execute(MoveUp(h)); stderr.execute(Clear(FromCursorDown))
ClearView ==
    <<[op |-> "moveup", n |-> running_print_height], [op |-> "clear"]>>

\* The live redraw of lines 178-180.
Redraw(s) == ClearView \o <<Written("text", Fmt(s), s)>>

\* Mutant: the redraw is due once the line being read completes a period.
RedrawDue_After(n, p) == (n + 1) % p = 0

\* lineno % polling == 0, for polling # 0.
RedrawDue(n, p) == n % p = 0

NoError == [set |-> FALSE, lineno |-> 0, number |-> ""]

BoundedSeq(S, n) == UNION {[1..k -> S] : k \in 0..n}

Init ==
    /\ json \in BOOLEAN
    /\ running \in BOOLEAN
    /\ polling \in 0..MaxPolling
    /\ skip_header \in BOOLEAN
    /\ input \in BoundedSeq(RawLines, MaxLines)
    /\ pos = 1
    /\ lineno = 0
    /\ stats \in {StatsDefault(d) : d \in DdofChoices}
    /\ stderr = <<>>
    /\ stdout = <<>>
    /\ err = NoError
    /\ pc = "start"
    /\ fed = <<>>

\* Lines 153-160: the initial live block.
Start ==
    /\ pc = "start"
    /\ stderr' = IF running THEN Append(stderr, Written("text", Fmt(stats), stats))
                 ELSE stderr
    /\ pc' = "header"
    /\ UNCHANGED <<json, running, polling, skip_header, input, pos, lineno,
                   stats, stdout, err, fed>>

\* Lines 162-165: lines.next() drops the first line, if there is one.
SkipHeader ==
    /\ pc = "header"
    /\ pos' = IF skip_header /\ pos <= Len(input) THEN pos + 1 ELSE pos
    /\ pc' = "loop"
    /\ UNCHANGED <<json, running, polling, skip_header, input, lineno,
                   stats, stderr, stdout, err, fed>>

\* Mutant: a line that does not parse is skipped and the loop goes on.
ParseError_Skip ==
    /\ pc = "loop"
    /\ pos <= Len(input)
    /\ ~ParseFloat(input[pos]).ok
    /\ lineno' = lineno + 1
    /\ pos' = pos + 1
    /\ UNCHANGED <<json, running, polling, skip_header, input, stats,
                   stderr, stdout, err, pc, fed>>

\* Lines 170-175: the line does not parse; bail!.
ParseError ==
    /\ pc = "loop"
    /\ pos <= Len(input)
    /\ ~ParseFloat(input[pos]).ok
    /\ err' = [set |-> TRUE, lineno |-> lineno, number |-> input[pos]]
    /\ pos' = pos + 1
    /\ pc' = "failed"
    /\ UNCHANGED <<json, running, polling, skip_header, input, lineno,
                   stats, stderr, stdout, fed>>

\* Line 177 with polling = 0: the remainder by zero panics.
RemainderPanic ==
    /\ pc = "loop"
    /\ pos <= Len(input)
    /\ ParseFloat(input[pos]).ok
    /\ running
    /\ polling = 0
    /\ pos' = pos + 1
    /\ pc' = "panicked"
    /\ UNCHANGED <<json, running, polling, skip_header, input, lineno,
                   stats, stderr, stdout, err, fed>>

\* Lines 167-184: one iteration that parses: the redraw if due, then update.
Fold ==
    /\ pc = "loop"
    /\ pos <= Len(input)
    /\ ParseFloat(input[pos]).ok
    /\ running => polling # 0
    /\ LET num == ParseFloat(input[pos]).v IN
         /\ stderr' = IF running /\ RedrawDue(lineno, polling)
                      THEN stderr \o Redraw(stats)
                      ELSE stderr
         /\ stats' = StatsUpdate(stats, num)
         /\ fed' = Append(fed, num)
    /\ lineno' = lineno + 1
    /\ pos' = pos + 1
    /\ UNCHANGED <<json, running, polling, skip_header, input, stdout, err, pc>>

\* Lines 186-198: end of stream: clear the live view, print the result.
Finish ==
    /\ pc = "loop"
    /\ pos > Len(input)
    /\ stderr' = IF running THEN stderr \o ClearView ELSE stderr
    /\ stdout' = Append(stdout, IF json THEN Written("json", ToJson(stats), stats)
                                ELSE Written("text", Fmt(stats), stats))
    /\ pc' = "done"
    /\ UNCHANGED <<json, running, polling, skip_header, input, pos, lineno,
                   stats, err, fed>>

Next ==
    \/ Start
    \/ SkipHeader
    \/ ParseError
    \/ RemainderPanic
    \/ Fold
    \/ Finish

Spec == Init /\ [][Next]_vars

\* ------------------------------------------------------------- claims
Range(s) == {s[i] : i \in 1..Len(s)}

\* The data lines: the input without the header line that SkipHeader drops.
HeaderLines == IF skip_header /\ Len(input) >= 1 THEN 1 ELSE 0
DataLines == SubSeq(input, HeaderLines + 1, Len(input))

BadLines == {i \in 1..Len(DataLines) : ~ParseFloat(DataLines[i]).ok}
HasBad == BadLines # {}
FirstBad == CHOOSE i \in BadLines : \A j \in BadLines : i <= j

\* The aggregate after folding vals, in order, into a fresh one.
RECURSIVE StatsOf(_, _)
StatsOf(vals, d) ==
    IF vals = <<>> THEN StatsDefault(d)
    ELSE StatsUpdate(StatsOf(SubSeq(vals, 1, Len(vals) - 1), d), vals[Len(vals)])

\* Every block written to a channel.
Writes(chan) == {chan[i] : i \in {j \in 1..Len(chan) : chan[j].op = "write"}}

\* The blocks of the live redraws, in order: every write to stderr that
\* follows a clear (the initial block follows none).
RedrawAt == {i \in 2..Len(stderr) : stderr[i].op = "write" /\ stderr[i - 1].op = "clear"}
RedrawCounts == {stderr[i].body.count : i \in RedrawAt}

\* C1: count equals the number of update calls; the values folded are the
\* parsed data lines, each once and in input order; when the run ends
\* normally, count equals the number of data lines.
C1_CountIsDataLines ==
    /\ stats.count = Len(fed)
    /\ Len(fed) <= Len(DataLines)
    /\ \A i \in 1..Len(fed) :
         ParseFloat(DataLines[i]).ok /\ fed[i] = ParseFloat(DataLines[i]).v
    /\ pc = "done" => stats.count = Len(DataLines)

C1_Witness ==
    pc = "done" /\ skip_header /\ Len(input) = 4 /\ stats.count = 3

\* C2: after at least one update, min is the smallest and max the largest
\* of the values fed so far, whatever their order, so min <= max.
C2_ExactExtrema ==
    fed # <<>> =>
        /\ stats.min \in Range(fed)
        /\ \A v \in Range(fed) : ~RLess(v, stats.min)
        /\ stats.max \in Range(fed)
        /\ \A v \in Range(fed) : ~RLess(stats.max, v)
        /\ ~RLess(stats.max, stats.min)

C2_Witness ==
    /\ Len(fed) = 3
    /\ Cardinality(Range(fed)) = 3
    /\ stats.min = fed[3]
    /\ stats.max = fed[2]

\* C3: every block rendered from an uninitialized aggregate, text or JSON,
\* shows mean, variance, median, q1 and q3 as the marker NA.
C3_UninitializedRendersNA ==
    \A w \in Writes(stderr) \cup Writes(stdout) :
        ~w.init =>
            /\ w.body.mean = NA
            /\ w.body.variance = NA
            /\ w.body.median = NA
            /\ w.body.q1 = NA
            /\ w.body.q3 = NA

\* C4: no block rendered from an uninitialized aggregate shows +infinity
\* as Min or -infinity as Max.
C4_NoSentinelLeak ==
    \A w \in Writes(stderr) \cup Writes(stdout) :
        ~w.init => w.body.min.kind # "inf" /\ w.body.max.kind # "-inf"

\* C5: when a data line does not parse, nothing is ever written to the
\* primary output, the run never ends normally, no line after the first
\* bad one is read, only the lines before it are folded, and the run that
\* reaches it stops there with the error.
C5_ParseErrorAborts ==
    HasBad =>
        /\ stdout = <<>>
        /\ pc # "done"
        /\ Len(fed) < FirstBad
        /\ pos <= HeaderLines + FirstBad + 1
        /\ pc = "failed" =>
             /\ err.set
             /\ pos = HeaderLines + FirstBad + 1
             /\ Len(fed) = FirstBad - 1
        /\ (pc = "loop" /\ pos = HeaderLines + FirstBad) => ENABLED ParseError

C5_Witness ==
    /\ pc = "failed"
    /\ Len(fed) = 2
    /\ stats.initialized
    /\ pos <= Len(input)

\* C6: the line number of the parse error is the number of input lines
\* that precede the offending line, and its text is that line.
C6_LineNumberIsStreamIndex ==
    pc = "failed" =>
        /\ err.lineno = pos - 2
        /\ err.number = input[pos - 1]

\* C7: initialized is false at creation, is true exactly when an update
\* has been applied (count >= 1), and is never set back to false.
C7_InitializedIffUpdated ==
    /\ ~stats.initialized /\ stats.count = 0
    /\ [][/\ stats'.initialized <=> stats'.count >= 1
          /\ stats'.initialized <=> Len(fed') >= 1
          /\ stats.initialized => stats'.initialized]_vars

C7_Witness ==
    pc = "done" /\ stats.initialized /\ stats.count = 2 /\ Len(stdout) = 1

\* C8 as stated: with live reporting and polling = P >= 1, every redraw
\* shows a count k*P with k >= 1, and every k*P (k >= 1) observations of
\* the input are shown by a redraw.
C8_RedrawAtEveryMultiple ==
    (running /\ polling >= 1) =>
        /\ \A c \in RedrawCounts : c >= 1 /\ c % polling = 0
        /\ pc = "done" =>
             \A c \in 1..stats.count : c % polling = 0 => c \in RedrawCounts

\* C8 amended: with live reporting and polling = P >= 1, the redraws are,
\* in order, those made just before the data line of 0-based index j is
\* folded, for every multiple j of P (0 included) below the number of
\* lines folded; each shows the statistics over exactly the first j
\* observations; there is no other redraw.
C8_RedrawBeforeEveryPth ==
    (running /\ polling >= 1) =>
        LET at == RedrawAt
            n == (Len(fed) + polling - 1) \div polling
        IN /\ Cardinality(at) = n
           /\ \A i \in at :
                LET k == Cardinality({j \in at : j < i})
                IN /\ k * polling < Len(fed)
                   /\ stderr[i].body =
                        Fmt(StatsOf(SubSeq(fed, 1, k * polling), stats.variance.ddof))

C8_Witness ==
    /\ running /\ polling = 2 /\ pc = "done"
    /\ stats.count = 4
    /\ RedrawCounts = {0, 2}

\* C9: the variance of N >= 1 observations is the sum of the squared
\* deviations from the mean divided by N.  It holds in the runs whose
\* Variance has ddof = 0 and fails in those with ddof = 1; which of the
\* two Variance::default() gives is fixed inside the crate.
RECURSIVE SumSeq(_)
SumSeq(s) == IF s = <<>> THEN Zero ELSE RAdd(s[1], SumSeq(Tail(s)))
PopulationVariance(vals) ==
    LET n == Len(vals)
        m == RDivN(SumSeq(vals), n)
        dev == [i \in 1..n |-> RMul(RSub(vals[i], m), RSub(vals[i], m))]
    IN RDivN(SumSeq(dev), n)
C9_PopulationVariance ==
    fed # <<>> => VarianceGet(stats.variance) = PopulationVariance(fed)

\* C10: with live reporting, whatever the polling interval, a run whose
\* data lines all parse never faults.
C10_NoFaultForAnyPolling ==
    (running /\ ~HasBad) => pc # "panicked"

=============================================================================
